---- MODULE Spec2Model ----
(***************************************************************************)
(* Model of the log analyzer of src/src/main.rs: the MyApp state, the      *)
(* dataset rebuild (recalc), the event classifier (update_signal_data),    *)
(* the interval merger (merge_on_intervals), the per-frame layout block    *)
(* and the Open / Import / conversion paths of MyApp::update.              *)
(*                                                                         *)
(* Conventions.                                                            *)
(*  - f64 times are held as integer milliseconds (parse_timestamp_to_f64   *)
(*    returns num_milliseconds / 1000.0), so 0.001 s is 1 and 0.2 s is 200.*)
(*  - Option<T> is a sequence: << >> is None, <<x>> is Some(x).            *)
(*  - A HashMap is a function whose DOMAIN is the key set; the empty map   *)
(*    is << >>.                                                            *)
(*  - One action is one egui update frame in which one widget is clicked;  *)
(*    every frame runs the layout block (lines 747-776) before it ends.    *)
(***************************************************************************)
EXTENDS Integers, Sequences, FiniteSets, TLC

VARIABLES
    logs,                       \* MyApp.logs: Vec<LogEntry>
    signals,                    \* MyApp.signals: HashMap<String, SignalData>
    offset_to_name,             \* MyApp.offset_to_name: HashMap<i32, String>
    min_time,                   \* MyApp.min_time
    max_time,                   \* MyApp.max_time
    groups,                     \* MyApp.groups: HashMap<String, GroupData>
    conversion_result,          \* MyApp.conversion_result: Option<ConversionResult>
    error_dialog_message,       \* MyApp.error_dialog_message: Option<String>
    visibility_defaults,        \* MyApp.visibility_defaults
    file_name,                  \* MyApp.file_name: Option<String>
    user_settings,              \* MyApp.user_settings (conversion_scripts)
    pending_import_file,        \* MyApp.pending_import_file
    pending_script_candidates,  \* MyApp.pending_script_candidates
    picked,                     \* the data file the last load read (history)
    lastOp,                     \* the kind of the last operation (history):
                                \* "load", "fail", "toggle", "other"
    plot_lines,                 \* the lines the frame's plot has drawn
    pc                          \* where a load that is under way stands

vars == <<logs, signals, offset_to_name, min_time, max_time, groups,
          conversion_result, error_dialog_message, visibility_defaults,
          file_name, user_settings, pending_import_file,
          pending_script_candidates, picked, lastOp, plot_lines, pc>>

\* What the failure paths must leave alone (the loaded dataset).
dataset == <<logs, signals, groups, visibility_defaults, file_name,
             min_time, max_time>>

-----------------------------------------------------------------------------
(* Bounds of the model. *)

MaxIntervals == 3       \* longest raw interval list given to the merger
MaxCoord == 2           \* raw interval end points range over 0..MaxCoord
MaxLogs == 3            \* longest event list of a generated data file
MaxTime == 1            \* generated timestamps range over 0..MaxTime (ms)
MaxVisLogs == 2         \* longest event list of a file rich in visibility
MaxVis == 2             \* longest default_visibility list of a data file
MaxSample == 3          \* events of the sample log the session's files draw on
MaxEvents == 3          \* longest event list of a file of the step-wise load
MaxEvTime == 1          \* its timestamps range over 0..MaxEvTime (ms)

-----------------------------------------------------------------------------
(* Program constants. *)

PulseWidth == 1         \* 0.001 s, the PULSE interval width
ArrowWidth == 200       \* 0.2 s, the ARROW / fallback interval width
DefaultMaxTime == 10000 \* 10.0 s, max_time of an empty dataset

None == << >>
Some(x) == <<x>>

\* No load is under way: update is between two frames.
Idle == [at |-> "idle", next |-> 0]

\* The strings of the model in the order of String's Ord (byte-wise
\* lexicographic): upper case before lower case.
StrOrder == <<"X", "Y", "a", "b", "c", "g1", "g2">>
StrRank(s) == CHOOSE i \in 1..Len(StrOrder) : StrOrder[i] = s
StrLess(a, b) == StrRank(a) < StrRank(b)

\* color_palette of recalc; Color32::WHITE is also the initial color.
color_palette == <<"RED", "GREEN", "BLUE", "YELLOW", "LIGHT_BLUE",
                   "LIGHT_GREEN", "WHITE", "GOLD">>

Interval(s, e) == [start |-> s, end |-> e]

\* The SignalData recalc inserts for every unique name.
NewSignal(n) ==
    [name |-> n, y_offset |-> 0, on_intervals |-> << >>, is_on |-> None,
     visible |-> FALSE, color |-> "WHITE"]

Range(s) == {s[i] : i \in 1..Len(s)}
Last(s) == s[Len(s)]
Front(s) == SubSeq(s, 1, Len(s) - 1)

-----------------------------------------------------------------------------
(* merge_on_intervals *)

\* Vec::sort_by on start: a stable sort, as an insertion sort that puts each
\* element behind the elements that do not compare greater.
RECURSIVE InsertByStart(_, _)
InsertByStart(sorted, iv) ==
    IF sorted = << >> THEN <<iv>>
    ELSE IF Last(sorted).start <= iv.start THEN Append(sorted, iv)
    ELSE Append(InsertByStart(Front(sorted), iv),
                Last(sorted))

RECURSIVE SortByStart(_)
SortByStart(ivs) ==
    IF ivs = << >> THEN << >>
    ELSE InsertByStart(SortByStart(Front(ivs)), Last(ivs))

\* One turn of the sweep over the sorted list (lines 923-939).
SweepStepTouchSplit(merged, iv) ==
    IF merged = << >> THEN <<iv>>
    ELSE LET last_iv == Last(merged) IN
         IF iv.start < last_iv.end
         THEN IF iv.end > last_iv.end
              THEN [merged EXCEPT ![Len(merged)].end = iv.end]
              ELSE merged
         ELSE Append(merged, Interval(iv.start, iv.end))

\* Mutant: every interval is fused with the one before it, the gap included.
SweepStepFusesAll(merged, iv) ==
    IF merged = << >> THEN <<Interval(iv.start, iv.end)>>
    ELSE LET last_iv == Last(merged) IN
         IF iv.end > last_iv.end
         THEN [merged EXCEPT ![Len(merged)].end = iv.end]
         ELSE merged

SweepStep(merged, iv) ==
    IF merged = << >> THEN <<Interval(iv.start, iv.end)>>
    ELSE LET last_iv == Last(merged) IN
         IF iv.start <= last_iv.end
         THEN IF iv.end > last_iv.end
              THEN [merged EXCEPT ![Len(merged)].end = iv.end]
              ELSE merged
         ELSE Append(merged, Interval(iv.start, iv.end))

RECURSIVE Sweep(_, _)
Sweep(merged, rest) ==
    IF rest = << >> THEN merged
    ELSE Sweep(SweepStep(merged, Head(rest)), Tail(rest))

\* Mutants of the merger: the merged list appended to the sorted list
\* instead of replacing it; the sort left out.
MergeAppends(ivs) == SortByStart(ivs) \o Sweep(<< >>, SortByStart(ivs))
MergeUnsorted(ivs) == Sweep(<< >>, ivs)

\* The interval list merge_on_intervals leaves in sig.on_intervals.
MergedIntervals(ivs) == Sweep(<< >>, SortByStart(ivs))

merge_on_intervals(sig) ==
    [sig EXCEPT !.on_intervals = MergedIntervals(sig.on_intervals)]

-----------------------------------------------------------------------------
(* The data file and its normalisation *)

\* parse_timestamp_to_f64: a timestamp text is <<ms>> when it has the form
\* "%Y-%m-%d %H:%M:%S%.3f" (ms since the epoch) and << >> when it does not
\* parse; the fallback is 0.0.
parse_timestamp_to_f64(ts) == IF ts = << >> THEN 0 ELSE ts[1]

\* for log in &mut logs { log.timestamp_num = parse_timestamp_to_f64(..) }
NormalizeLogs(ls) ==
    [i \in 1..Len(ls) |->
        [ls[i] EXCEPT !.timestamp_num = parse_timestamp_to_f64(ls[i].timestamp)]]

\* logs.sort_by on timestamp_num: stable, ties keep the input order.
RECURSIVE InsertByTime(_, _)
InsertByTime(sorted, e) ==
    IF sorted = << >> THEN <<e>>
    ELSE IF Last(sorted).timestamp_num <= e.timestamp_num THEN Append(sorted, e)
    ELSE Append(InsertByTime(Front(sorted), e), Last(sorted))

RECURSIVE SortByTime(_)
SortByTime(ls) ==
    IF ls = << >> THEN << >>
    ELSE InsertByTime(SortByTime(Front(ls)), Last(ls))

\* Mutant: the sort by time left out.
SortLogsSkipped(ls) == ls

\* Mutant: the comparison of the sort turned round (latest event first).
SortLogsLatestFirst(ls) ==
    LET sorted == SortByTime(ls)
    IN [i \in 1..Len(sorted) |-> sorted[Len(sorted) + 1 - i]]

SortLogs(ls) == SortByTime(ls)

\* self.visibility_defaults after clear() and the inserts of the entries in
\* file order: a later entry for the same (group, name) replaces the earlier.
RECURSIVE InsertDefaults(_, _)
InsertDefaults(m, entries) ==
    IF entries = << >> THEN m
    ELSE LET e == Head(entries)
             k == <<e.group, e.name>>
         IN InsertDefaults(
                [x \in DOMAIN m \cup {k} |-> IF x = k THEN e.visible ELSE m[x]],
                Tail(entries))

LoadDefaults(default_visibility) ==
    IF default_visibility = None THEN << >>
    ELSE InsertDefaults(<< >>, default_visibility[1])

-----------------------------------------------------------------------------
(* update_signal_data *)

PushInterval(sigs, n, iv) ==
    [sigs EXCEPT ![n].on_intervals = Append(@, iv)]

\* Mutant: an ON does not replace a pending start (first ON wins).
OnOffFirstOnWins(sigs, log) ==
    LET n == log.name
        time == log.timestamp_num
    IN IF log.value.t # "str" \/ n \notin DOMAIN sigs THEN sigs
       ELSE IF log.value.s = "ON"
            THEN IF sigs[n].is_on = None
                 THEN [sigs EXCEPT ![n].is_on = Some(time)]
                 ELSE sigs
       ELSE IF log.value.s = "OFF"
            THEN IF sigs[n].is_on # None
                 THEN [sigs EXCEPT ![n].on_intervals =
                                       Append(@, Interval(sigs[n].is_on[1], time)),
                                   ![n].is_on = None]
                 ELSE sigs
       ELSE sigs

\* Mutant: an OFF with no pending start emits an empty interval at its time.
OnOffUnmatchedOffEmits(sigs, log) ==
    LET n == log.name
        time == log.timestamp_num
    IN IF log.value.t # "str" \/ n \notin DOMAIN sigs THEN sigs
       ELSE IF log.value.s = "ON"
            THEN [sigs EXCEPT ![n].is_on = Some(time)]
       ELSE IF log.value.s = "OFF"
            THEN IF sigs[n].is_on # None
                 THEN [sigs EXCEPT ![n].on_intervals =
                                       Append(@, Interval(sigs[n].is_on[1], time)),
                                   ![n].is_on = None]
                 ELSE [sigs EXCEPT ![n].on_intervals = Append(@, Interval(time, time))]
       ELSE sigs

\* Mutant: an OFF emits the interval and leaves the pending start in place.
OnOffKeepsPending(sigs, log) ==
    LET n == log.name
        time == log.timestamp_num
    IN IF log.value.t # "str" \/ n \notin DOMAIN sigs THEN sigs
       ELSE IF log.value.s = "ON"
            THEN [sigs EXCEPT ![n].is_on = Some(time)]
       ELSE IF log.value.s = "OFF"
            THEN IF sigs[n].is_on # None
                 THEN [sigs EXCEPT ![n].on_intervals =
                                       Append(@, Interval(sigs[n].is_on[1], time))]
                 ELSE sigs
       ELSE sigs

\* The "ONOFF" arm (lines 873-887).
OnOff(sigs, log) ==
    LET n == log.name
        time == log.timestamp_num
    IN IF log.value.t # "str" \/ n \notin DOMAIN sigs THEN sigs
       ELSE IF log.value.s = "ON"
            THEN [sigs EXCEPT ![n].is_on = Some(time)]
       ELSE IF log.value.s = "OFF"
            THEN IF sigs[n].is_on # None
                 THEN [sigs EXCEPT ![n].on_intervals =
                                       Append(@, Interval(sigs[n].is_on[1], time)),
                                   ![n].is_on = None]
                 ELSE sigs
       ELSE sigs

\* Mutant: the PULSE interval is as wide as the payload says.
PulseWidthFromValue(sigs, log) ==
    LET n == log.name
        time == log.timestamp_num
    IN CASE log.kind = "ONOFF" -> OnOff(sigs, log)
         [] log.kind = "PULSE" ->
                IF log.value.t = "num" /\ n \in DOMAIN sigs
                THEN PushInterval(sigs, n, Interval(time, time + log.value.n))
                ELSE sigs
         [] OTHER ->
                IF n \in DOMAIN sigs
                THEN PushInterval(sigs, n, Interval(time, time + ArrowWidth))
                ELSE sigs

update_signal_data(sigs, log) ==
    LET n == log.name
        time == log.timestamp_num
    IN CASE log.kind = "ONOFF" -> OnOff(sigs, log)
         [] log.kind = "PULSE" ->
                IF log.value.t = "num" /\ n \in DOMAIN sigs
                THEN PushInterval(sigs, n, Interval(time, time + PulseWidth))
                ELSE sigs
         [] log.kind = "ARROW" ->
                IF n \in DOMAIN sigs
                THEN PushInterval(sigs, n, Interval(time, time + ArrowWidth))
                ELSE sigs
         [] OTHER ->
                IF n \in DOMAIN sigs
                THEN PushInterval(sigs, n, Interval(time, time + ArrowWidth))
                ELSE sigs

\* for log in &self.logs { update_signal_data(&mut self.signals, log) }
RECURSIVE ClassifyAll(_, _)
ClassifyAll(sigs, ls) ==
    IF ls = << >> THEN sigs
    ELSE ClassifyAll(update_signal_data(sigs, Head(ls)), Tail(ls))

\* for sig in self.signals.values_mut() { merge_on_intervals(sig) }
MergeAll(sigs) == [n \in DOMAIN sigs |-> merge_on_intervals(sigs[n])]

-----------------------------------------------------------------------------
(* recalc: group resolution, default visibility, layout of all grouped *)

HasGroup(log) == log.group # None /\ log.group[1] # ""

\* signal_to_group: the first log (in the order of self.logs) that carries a
\* non-empty group decides the group of its signal name.
RECURSIVE SignalToGroup(_, _)
SignalToGroup(m, ls) ==
    IF ls = << >> THEN m
    ELSE LET log == Head(ls) IN
         IF HasGroup(log) /\ log.name \notin DOMAIN m
         THEN SignalToGroup(
                  [x \in DOMAIN m \cup {log.name} |->
                      IF x = log.name THEN log.group[1] ELSE m[x]],
                  Tail(ls))
         ELSE SignalToGroup(m, Tail(ls))

\* Mutant: a later log with a group replaces the recorded group (last wins).
RECURSIVE SignalToGroupLastWins(_, _)
SignalToGroupLastWins(m, ls) ==
    IF ls = << >> THEN m
    ELSE LET log == Head(ls) IN
         IF HasGroup(log)
         THEN SignalToGroupLastWins(
                  [x \in DOMAIN m \cup {log.name} |->
                      IF x = log.name THEN log.group[1] ELSE m[x]],
                  Tail(ls))
         ELSE SignalToGroupLastWins(m, Tail(ls))

\* Vec<String>::sort() of distinct strings: the ascending sequence of a set.
\* (The push order of lines 233-239 is the HashMap's iteration order; the
\* pushed names are distinct, so the sorted Vec depends on the set alone.)
RECURSIVE SortStrings(_)
SortStrings(S) ==
    IF S = {} THEN << >>
    ELSE LET least == CHOOSE x \in S : \A y \in S \ {x} : StrLess(x, y)
         IN <<least>> \o SortStrings(S \ {least})

\* Mutant: the group of a signal is the group of its last log with a group.
ResolveGroupsLastWins(ls) == SignalToGroupLastWins(<< >>, ls)

ResolveGroups(ls) == SignalToGroup(<< >>, ls)

\* self.groups after lines 218-242.
BuildGroups(ls) ==
    LET s2g == ResolveGroups(ls)
        keys == {ls[i].group[1] : i \in {j \in 1..Len(ls) : HasGroup(ls[j])}}
    IN [g \in keys |->
           [name |-> g,
            signals |-> SortStrings({n \in DOMAIN s2g : s2g[n] = g})]]

\* Mutant: the default is looked up under the name alone, whatever the group.
DefaultVisibleAnyGroup(s2g, vd, n) ==
    \E k \in DOMAIN vd : k[2] = n /\ vd[k]

\* The default of lines 245-252.
DefaultVisible(s2g, vd, n) ==
    IF n \in DOMAIN s2g
    THEN IF <<s2g[n], n>> \in DOMAIN vd THEN vd[<<s2g[n], n>>] ELSE FALSE
    ELSE FALSE

\* group_keys.sort() and the walk over each group's signals.
RECURSIVE WalkGroups(_, _)
WalkGroups(grps, keys) ==
    IF keys = << >> THEN << >>
    ELSE grps[Head(keys)].signals \o WalkGroups(grps, Tail(keys))

OrderedSignalNames(grps) == WalkGroups(grps, SortStrings(DOMAIN grps))

IndexOf(seq, x) == CHOOSE i \in 1..Len(seq) : seq[i] = x

\* Mutant: the slots counted upwards, the first name at the bottom.
SlotOffsetAscending(total, i) == i * 2 + 1

\* The slot of the i-th (0-indexed) of total names: ((total - i) * 2 - 1).
SlotOffset(total, i) == (total - i) * 2 - 1

\* The whole of recalc, from self.logs and self.visibility_defaults.
Recalc(ls, vd) ==
    LET names == {ls[i].name : i \in 1..Len(ls)}
        s2g == ResolveGroups(ls)
        grps == BuildGroups(ls)
        fresh == [n \in names |->
                    [NewSignal(n) EXCEPT !.visible = DefaultVisible(s2g, vd, n)]]
        merged == MergeAll(ClassifyAll(fresh, ls))
        ordered == OrderedSignalNames(grps)
        total == Len(ordered)
        placed == [n \in names |->
                     IF n \in Range(ordered)
                     THEN LET i == IndexOf(ordered, n) - 1 IN
                          [merged[n] EXCEPT
                              !.y_offset = SlotOffset(total, i),
                              !.color = color_palette[(i % Len(color_palette)) + 1]]
                     ELSE merged[n]]
    IN [min_time |-> IF ls = << >> THEN 0 ELSE ls[1].timestamp_num,
        max_time |-> IF ls = << >> THEN DefaultMaxTime ELSE Last(ls).timestamp_num,
        signals |-> placed,
        groups |-> grps,
        offset_to_name |->
            [o \in {SlotOffset(total, i - 1) : i \in 1..total} |->
                ordered[CHOOSE i \in 1..total : SlotOffset(total, i - 1) = o]]]

-----------------------------------------------------------------------------
(* The layout block of update (lines 747-776) *)

VisibleInOrder(sigs, grps) ==
    LET IsVisible(n) == n \in DOMAIN sigs /\ sigs[n].visible
    IN SelectSeq(OrderedSignalNames(grps), IsVisible)

\* Mutant: the layout block also gives each visible signal the palette
\* color of its place among the visible ones, as recalc does for all.
LayoutOffsetsRecolors(sigs, grps) ==
    LET vis == VisibleInOrder(sigs, grps)
        total_visible == Len(vis)
    IN [n \in DOMAIN sigs |->
           IF n \in Range(vis)
           THEN [sigs[n] EXCEPT
                    !.y_offset = SlotOffset(total_visible, IndexOf(vis, n) - 1),
                    !.color = color_palette[((IndexOf(vis, n) - 1)
                                               % Len(color_palette)) + 1]]
           ELSE sigs[n]]

\* Lines 762-768: the visible signals of the groups get their offsets.
LayoutOffsets(sigs, grps) ==
    LET vis == VisibleInOrder(sigs, grps)
        total_visible == Len(vis)
    IN [n \in DOMAIN sigs |->
           IF n \in Range(vis)
           THEN [sigs[n] EXCEPT
                    !.y_offset = SlotOffset(total_visible, IndexOf(vis, n) - 1)]
           ELSE sigs[n]]

\* Lines 769-775: every visible signal of self.signals is inserted under its
\* y_offset as i32; of two signals with one offset the one the HashMap
\* iterates last stays, which is any of them.
Holders(sigs, k) == {n \in DOMAIN sigs : sigs[n].visible /\ sigs[n].y_offset = k}

RECURSIVE MapsOver(_, _)
MapsOver(sigs, keys) ==
    IF keys = {} THEN {<< >>}
    ELSE LET k == CHOOSE x \in keys : TRUE
         IN {[x \in DOMAIN m \cup {k} |-> IF x = k THEN nm ELSE m[x]] :
                m \in MapsOver(sigs, keys \ {k}), nm \in Holders(sigs, k)}

OffsetMaps(sigs) ==
    MapsOver(sigs, {sigs[n].y_offset : n \in {x \in DOMAIN sigs : sigs[x].visible}})

\* build_digital_wave (lines 169-191): the loop over the intervals, with the
\* points pushed so far and current_x.
RECURSIVE WaveLoop(_, _, _, _)
WaveLoop(points, current_x, ivs, offset) ==
    IF ivs = << >> THEN [points |-> points, current_x |-> current_x]
    ELSE LET iv == Head(ivs)
             held == IF iv.start > current_x
                     THEN Append(points, <<iv.start, offset>>)
                     ELSE points
         IN WaveLoop(held \o <<<<iv.start, offset + 1>>,
                                <<iv.end, offset + 1>>,
                                <<iv.end, offset>>>>,
                     iv.end, Tail(ivs), offset)

\* Mutant: the closing point at max_t is pushed whatever current_x is.
BuildWaveAlwaysCloses(on_intervals, min_t, max_t, offset) ==
    Append(WaveLoop(<<<<min_t, offset>>>>, min_t, on_intervals, offset).points,
           <<max_t, offset>>)

build_digital_wave(on_intervals, min_t, max_t, offset) ==
    LET r == WaveLoop(<<<<min_t, offset>>>>, min_t, on_intervals, offset)
    IN IF r.current_x < max_t
       THEN Append(r.points, <<max_t, offset>>)
       ELSE r.points

\* The plot of the frame (lines 822-849): one line per visible signal of the
\* groups, in the order of the walk, built by build_digital_wave.
PlotLines(sigs, grps, min_t, max_t) ==
    LET vis == VisibleInOrder(sigs, grps)
    IN [i \in 1..Len(vis) |->
           [name |-> vis[i],
            points |-> build_digital_wave(sigs[vis[i]].on_intervals,
                                          min_t, max_t, sigs[vis[i]].y_offset)]]

\* The rest of a frame after the clicks: the layout block on the signals
\* the frame has produced, then the plot, with the frame's min_time and
\* max_time.
FrameTail(sigs, grps, min_t, max_t) ==
    \E placed \in {LayoutOffsets(sigs, grps)} :
       /\ signals' = placed
       /\ offset_to_name' \in OffsetMaps(placed)
       /\ plot_lines' = PlotLines(placed, grps, min_t, max_t)

\* The layout block and the plot in a frame that loads no file.
LayoutBlock(sigs, grps) == FrameTail(sigs, grps, min_time, max_time)

\* The signals the plot draws a waveform for (lines 822-849).
DrawnSignals(sigs, grps) == Range(VisibleInOrder(sigs, grps))

-----------------------------------------------------------------------------
(* MyApp::new *)

\* UserSettings::default(): one script for ".log" and ".txt".
DefaultSettings ==
    [conversion_scripts |->
        <<[name |-> "Default Conversion", extensions |-> {".log", ".txt"}]>>]

\* The fields of MyApp::new() but user_settings.
FreshApp ==
    /\ logs = << >>
    /\ signals = << >>
    /\ offset_to_name = << >>
    /\ min_time = 0
    /\ max_time = DefaultMaxTime
    /\ groups = << >>
    /\ conversion_result = None
    /\ error_dialog_message = None
    /\ visibility_defaults = << >>
    /\ file_name = None
    /\ pending_import_file = None
    /\ pending_script_candidates = None
    /\ plot_lines = << >>
    /\ pc = Idle

-----------------------------------------------------------------------------
(* The merger on its own: recalc between its two loops (lines 256-261).    *)
(* The state holds two signals whose raw lists are permutations of each    *)
(* other; the step is the loop that merges every signal.                   *)

RawIntervals ==
    {Interval(s, e) : s \in 0..MaxCoord, e \in 0..MaxCoord} \cap
    {iv \in [start : 0..MaxCoord, end : 0..MaxCoord] : iv.start <= iv.end}

RawLists == UNION {[1..n -> RawIntervals] : n \in 0..MaxIntervals}

Perms(n) == {p \in [1..n -> 1..n] : \A i, j \in 1..n : p[i] = p[j] => i = j}

\* The permutations of each length, computed once.
PermTable == [n \in 0..MaxIntervals |-> Perms(n)]

InitMerge ==
    /\ \E raw \in RawLists : \E p \in PermTable[Len(raw)] :
          /\ picked = [n \in {"X", "Y"} |->
                          IF n = "X" THEN raw ELSE [i \in 1..Len(raw) |-> raw[p[i]]]]
          /\ signals = [n \in {"X", "Y"} |->
                          [NewSignal(n) EXCEPT !.on_intervals = picked[n]]]
    /\ logs = << >>
    /\ offset_to_name = << >>
    /\ min_time = 0
    /\ max_time = DefaultMaxTime
    /\ groups = << >>
    /\ conversion_result = None
    /\ error_dialog_message = None
    /\ visibility_defaults = << >>
    /\ file_name = None
    /\ pending_import_file = None
    /\ pending_script_candidates = None
    /\ plot_lines = << >>
    /\ pc = Idle
    /\ user_settings = DefaultSettings
    /\ lastOp = "classified"

MergeSignals ==
    /\ signals' = MergeAll(signals)
    /\ lastOp' = IF lastOp = "classified" THEN "merge" ELSE "remerge"
    /\ UNCHANGED <<logs, offset_to_name, min_time, max_time, groups,
                   conversion_result, error_dialog_message, visibility_defaults,
                   file_name, user_settings, pending_import_file,
                   pending_script_candidates, picked, plot_lines, pc>>

NextMerge == MergeSignals

SpecMerge == InitMerge /\ [][NextMerge]_vars

Contains(ivs, iv) ==
    \E j \in 1..Len(ivs) : ivs[j].start <= iv.start /\ iv.end <= ivs[j].end

Separated(ivs) ==
    \A j \in 1..(Len(ivs) - 1) : ivs[j].end < ivs[j + 1].start

\* C2: after merge_on_intervals every raw interval lies within one merged
\* interval (so every point an input interval covers is covered: the merged
\* intervals are closed and apart, and an input interval is connected), and
\* adjacent merged intervals satisfy merged[i].end < merged[i+1].start.
MergeCoverage ==
    lastOp \in {"merge", "remerge"} =>
        \A n \in DOMAIN signals :
            /\ \A i \in 1..Len(picked[n]) :
                   Contains(signals[n].on_intervals, picked[n][i])
            /\ Separated(signals[n].on_intervals)

\* A merge that fused touching intervals and kept others apart.
MergeCoverageWitness ==
    /\ lastOp = "merge"
    /\ picked["X"] = <<Interval(2, 2), Interval(0, 0), Interval(0, 1)>>
    /\ signals["X"].on_intervals = <<Interval(0, 1), Interval(2, 2)>>
    /\ Len(signals["Y"].on_intervals) = 2

\* C3: merging a list that merge_on_intervals produced leaves it unchanged.
MergeIdempotent == [][lastOp' = "remerge" => signals' = signals]_vars

\* A second merge of a list that the first merge had changed.
MergeIdempotentWitness ==
    /\ lastOp = "remerge"
    /\ Len(signals["X"].on_intervals) = 2
    /\ Len(picked["X"]) = 3
    /\ signals["X"].on_intervals # picked["X"]

\* C4: the merged list does not depend on the order of the raw list: the
\* two signals, whose raw lists are permutations of each other, end with
\* the same on_intervals.
MergeOrderIndependent ==
    lastOp = "merge" =>
        signals["X"].on_intervals = signals["Y"].on_intervals

\* Two raw intervals with one start and different ends, given in both orders.
MergeOrderWitness ==
    /\ lastOp = "merge"
    /\ Len(picked["X"]) >= 2
    /\ picked["X"][1].start = picked["X"][2].start
    /\ picked["X"][1].end < picked["X"][2].end
    /\ picked["Y"][1] = picked["X"][2]
    /\ picked["Y"][2] = picked["X"][1]

-----------------------------------------------------------------------------
(* Data files (struct DataFile) and the load path                          *)

NullValue == [t |-> "null", s |-> "", n |-> 0]
StrValue(x) == [t |-> "str", s |-> x, n |-> 0]
NumValue(x) == [t |-> "num", s |-> "", n |-> x]

\* A LogEntry as serde builds it: timestamp_num is skipped, so it is 0.0.
\* (comment is display-only and left out.)
LogEntry(ts, k, nm, g, v) ==
    [timestamp |-> ts, kind |-> k, name |-> nm, group |-> g, value |-> v,
     timestamp_num |-> 0]

VisibilityEntry(g, nm, v) == [group |-> g, name |-> nm, visible |-> v]

DataFile(ls, dv) == [logs |-> ls, default_visibility |-> dv]

Seqs(S, n) == UNION {[1..k -> S] : k \in 0..n}

\* Paths the file dialog returns, with Path::extension, Path::file_stem and
\* Path::with_extension("json") on them.
Paths == {"data.json", "trace.log", "trace.txt", "trace.bin"}
IsJsonPath(path) == path = "data.json"
ExtWithDot(path) ==
    CASE path = "data.json" -> ".json"
      [] path = "trace.log" -> ".log"
      [] path = "trace.txt" -> ".txt"
      [] path = "trace.bin" -> ".bin"
      [] path = "trace.json" -> ".json"
FileStem(path) ==
    CASE path = "data.json" -> "data"
      [] path = "trace.log" -> "trace"
      [] path = "trace.txt" -> "trace"
      [] path = "trace.bin" -> "trace"
      [] path = "trace.json" -> "trace"
WithJsonExtension(path) ==
    CASE path = "data.json" -> "data.json"
      [] path = "trace.log" -> "trace.json"
      [] path = "trace.txt" -> "trace.json"
      [] path = "trace.bin" -> "trace.json"
      [] path = "trace.json" -> "trace.json"

\* The Ok(data_file) arm shared by Open, Import and the Conversion Result
\* OK button (lines 544-571, 597-624, 388-415), followed by the rest of the
\* frame: no other widget is clicked, and the layout block runs.
\* What the arm assigns before the frame goes on: self.logs,
\* self.visibility_defaults and the fields recalc sets.
Rebuilt(f) ==
    LET sorted == SortLogs(NormalizeLogs(f.logs))
        vd == LoadDefaults(f.default_visibility)
        r == Recalc(sorted, vd)
    IN [logs |-> sorted, visibility_defaults |-> vd, min_time |-> r.min_time,
        max_time |-> r.max_time, groups |-> r.groups, signals |-> r.signals]

\* The files of the session: every selection, in order, of the first
\* MaxSample events of a sample log (two groups, one of two members, and a
\* signal without group), with no default_visibility or with the sample's.
SampleLog ==
    <<LogEntry(<<2>>, "ONOFF", "b", Some("g1"), StrValue("ON")),
      LogEntry(<<0>>, "ARROW", "Y", None, NullValue),
      LogEntry(<<1>>, "PULSE", "a", Some("g2"), NumValue(5)),
      LogEntry(<<1>>, "ARROW", "c", Some("g1"), NullValue),
      LogEntry(<<3>>, "ONOFF", "b", Some("g1"), StrValue("OFF")),
      LogEntry(<< >>, "NOTE", "X", Some(""), NullValue)>>

SampleDefaults ==
    <<VisibilityEntry("g1", "b", TRUE), VisibilityEntry("g2", "a", TRUE),
      VisibilityEntry("g1", "c", FALSE), VisibilityEntry("g1", "Y", TRUE)>>

RECURSIVE SubLists(_)
SubLists(seq) ==
    IF seq = << >> THEN {<< >>}
    ELSE LET rest == SubLists(Tail(seq))
         IN rest \cup {<<Head(seq)>> \o r : r \in rest}

SessionFiles ==
    {DataFile(ls, dv) :
        ls \in SubLists(SubSeq(SampleLog, 1, MaxSample)),
        dv \in {None, Some(SampleDefaults)}}

\* Rebuilt on the session's files, computed once.
SessionTable == [f \in SessionFiles |-> Rebuilt(f)]

\* Mutant: recalc without self.signals.clear(): the signals of the dataset
\* loaded before stay in the map.
RebuiltOverOldSignals(f) ==
    LET r == Rebuilt(f)
    IN [r EXCEPT !.signals =
           [n \in DOMAIN r.signals \cup DOMAIN signals |->
               IF n \in DOMAIN r.signals THEN r.signals[n] ELSE signals[n]]]

\* Mutant: a signal that was in the map before the load keeps the visible
\* flag the user had given it.
RebuiltKeepsToggles(f) ==
    LET r == Rebuilt(f)
    IN [r EXCEPT !.signals =
           [n \in DOMAIN r.signals |->
               IF n \in DOMAIN signals
               THEN [r.signals[n] EXCEPT !.visible = signals[n].visible]
               ELSE r.signals[n]]]

RebuiltFile(f) == IF f \in DOMAIN SessionTable THEN SessionTable[f] ELSE Rebuilt(f)

LoadDataFile(f, path) ==
    \E r \in {RebuiltFile(f)} :
       /\ logs' = r.logs
       /\ visibility_defaults' = r.visibility_defaults
       /\ file_name' = Some(FileStem(path))
       /\ min_time' = r.min_time
       /\ max_time' = r.max_time
       /\ groups' = r.groups
       /\ FrameTail(r.signals, r.groups, r.min_time, r.max_time)
       /\ picked' = f

\* File > Open on a .json file that reads and parses.
OpenOk(f) ==
    /\ LoadDataFile(f, "data.json")
    /\ lastOp' = "load"
    /\ UNCHANGED <<conversion_result, error_dialog_message, user_settings,
                   pending_import_file, pending_script_candidates, pc>>

-----------------------------------------------------------------------------
(* One load of one data file into the fresh application.                   *)

GroupOptions == {None, Some("g1"), Some("g2")}

\* Files rich in groups and times: every event list up to MaxLogs over two
\* names, the three group options and the times 0..MaxTime.
GroupEvents ==
    {LogEntry(<<t>>, "ARROW", nm, g, NullValue) :
        t \in 0..MaxTime, nm \in {"a", "b"}, g \in GroupOptions}

GroupFiles == {DataFile(ls, None) : ls \in Seqs(GroupEvents, MaxLogs)}

\* Files rich in default_visibility: short event lists (with the empty group
\* string and an unparsable timestamp) and every entry list up to MaxVis.
VisEvents ==
    {LogEntry(ts, "ARROW", nm, g, NullValue) :
        ts \in {<< >>}, nm \in {"a", "b"},
        g \in {Some(""), Some("g1"), Some("g2")}}

VisEntries ==
    {VisibilityEntry(g, nm, v) :
        g \in {"g1", "g2"}, nm \in {"a", "b"}, v \in BOOLEAN}

VisFiles ==
    {DataFile(ls, dv) :
        ls \in Seqs(VisEvents, MaxVisLogs),
        dv \in {None} \cup {Some(es) : es \in Seqs(VisEntries, MaxVis)}}

\* The scenario of two overlapping ON/OFF pairs of signal X (times in ms),
\* alone and with one event of another signal at any place.
OverlapScenario ==
    <<LogEntry(<<0>>, "ONOFF", "X", None, StrValue("ON")),
      LogEntry(<<5000>>, "ONOFF", "X", None, StrValue("OFF")),
      LogEntry(<<3000>>, "ONOFF", "X", None, StrValue("ON")),
      LogEntry(<<8000>>, "ONOFF", "X", None, StrValue("OFF"))>>

OtherSignalEvents ==
    {LogEntry(<<t>>, "ONOFF", "Y", None, StrValue(v)) :
        t \in {0, 4000, 9000}, v \in {"ON", "OFF"}}

InsertAt(seq, k, e) == SubSeq(seq, 1, k) \o <<e>> \o SubSeq(seq, k + 1, Len(seq))

ScenarioFiles ==
    {DataFile(OverlapScenario, None)} \cup
    {DataFile(InsertAt(OverlapScenario, k, e), None) :
        k \in 0..Len(OverlapScenario), e \in OtherSignalEvents}

LoadFiles == GroupFiles \cup VisFiles \cup ScenarioFiles

InitLoad ==
    /\ FreshApp
    /\ user_settings = DefaultSettings
    /\ picked \in LoadFiles
    /\ lastOp = "init"

\* The user opens the file the dialog has picked.
OpenPicked == OpenOk(picked)

NextLoad == OpenPicked

SpecLoad == InitLoad /\ [][NextLoad]_vars

EventsOf(ls, nm) == LET Named(e) == e.name = nm IN SelectSeq(ls, Named)

\* C1 as stated: the events ON@0, OFF@5, ON@3, OFF@8 of X, loaded through the
\* load path, leave X with the merged intervals [(0,8)].
OverlapYieldsUnion ==
    (lastOp = "load" /\ EventsOf(picked.logs, "X") = OverlapScenario) =>
        signals["X"].on_intervals = <<Interval(0, 8000)>>

\* C1 amended: the load sorts the events by time into ON@0, ON@3, OFF@5,
\* OFF@8; the second ON replaces the pending start and the second OFF finds
\* none, so X is left with the merged intervals [(3,5)].
OverlapYieldsLastOnPair ==
    (lastOp = "load" /\ EventsOf(picked.logs, "X") = OverlapScenario) =>
        signals["X"].on_intervals = <<Interval(3000, 5000)>>

\* The scenario loaded among the events of another signal.
OverlapWitness ==
    /\ lastOp = "load"
    /\ EventsOf(picked.logs, "X") = OverlapScenario
    /\ Len(picked.logs) > Len(OverlapScenario)
    /\ Len(logs) = Len(picked.logs)

Permuted(ls, p) == [i \in 1..Len(ls) |-> ls[p[i]]]

\* self.groups as the load path leaves it for the raw event list ls.
GroupsLoadedFrom(ls) == BuildGroups(SortLogs(NormalizeLogs(ls)))

Ascending(names) ==
    \A i \in 1..(Len(names) - 1) : StrLess(names[i], names[i + 1])

\* No two events of one signal name with the same numeric time carry
\* different non-empty groups.
TiesAgreeOnGroup(ls) ==
    \A i, j \in 1..Len(ls) :
        (/\ ls[i].name = ls[j].name
         /\ parse_timestamp_to_f64(ls[i].timestamp) =
                parse_timestamp_to_f64(ls[j].timestamp)
         /\ HasGroup(ls[i]) /\ HasGroup(ls[j]))
        => ls[i].group = ls[j].group

\* C7 as stated: whatever the order of the event list, the load ends with
\* the same member list for every group, each in strictly ascending order.
GroupsOrderIndependent ==
    lastOp = "load" =>
        /\ \A p \in Perms(Len(picked.logs)) :
               GroupsLoadedFrom(Permuted(picked.logs, p)) = groups
        /\ \A g \in DOMAIN groups : Ascending(groups[g].signals)

\* C7 amended: the same, for event lists in which events of one signal name
\* that share a numeric time do not carry different non-empty groups (the
\* sort is stable, so among such events the input order picks the group);
\* the member lists are strictly ascending in every case.
GroupsOrderIndependentButTies ==
    lastOp = "load" =>
        /\ TiesAgreeOnGroup(picked.logs) =>
               \A p \in Perms(Len(picked.logs)) :
                   GroupsLoadedFrom(Permuted(picked.logs, p)) = groups
        /\ \A g \in DOMAIN groups : Ascending(groups[g].signals)

\* A load of an event list that is not in time order, in which a signal
\* carries two groups at different times and a group has two members.
GroupsOrderWitness ==
    /\ lastOp = "load"
    /\ TiesAgreeOnGroup(picked.logs)
    /\ Len(picked.logs) = 3
    /\ picked.logs[1].name = "b" /\ picked.logs[1].timestamp = <<1>>
    /\ picked.logs[1].group = Some("g1")
    /\ picked.logs[2].name = "b" /\ picked.logs[2].timestamp = <<0>>
    /\ picked.logs[2].group = Some("g2")
    /\ picked.logs[3].name = "a" /\ picked.logs[3].group = Some("g2")
    /\ groups["g2"].signals = <<"a", "b">>
    /\ groups["g1"].signals = << >>

Occurrences(seq, x) == Cardinality({i \in 1..Len(seq) : seq[i] = x})

\* C9: after a rebuild a signal name is a member of at most one group, once:
\* the group of the first log, in the sorted self.logs, of that name with a
\* non-empty group; a name with no such log is a member of no group.
OneGroupFirstSeen ==
    lastOp = "load" =>
        \A nm \in DOMAIN signals :
            LET grouped == {i \in 1..Len(logs) :
                               logs[i].name = nm /\ HasGroup(logs[i])}
            IN IF grouped = {}
               THEN \A g \in DOMAIN groups : Occurrences(groups[g].signals, nm) = 0
               ELSE LET first == CHOOSE i \in grouped : \A j \in grouped : i <= j
                    IN \A g \in DOMAIN groups :
                           Occurrences(groups[g].signals, nm) =
                               IF g = logs[first].group[1] THEN 1 ELSE 0

\* A signal with logs in two groups, the later in time first in the file,
\* and a signal with no group.
OneGroupWitness ==
    /\ lastOp = "load"
    /\ Len(picked.logs) = 3
    /\ picked.logs[1].name = "a" /\ picked.logs[1].timestamp = <<1>>
    /\ picked.logs[1].group = Some("g1")
    /\ picked.logs[2].name = "a" /\ picked.logs[2].timestamp = <<0>>
    /\ picked.logs[2].group = Some("g2")
    /\ picked.logs[3].name = "b" /\ picked.logs[3].group = None
    /\ groups["g2"].signals = <<"a">>
    /\ groups["g1"].signals = << >>

\* What the file's default_visibility says of (g, nm): the visible flag of
\* its last entry for that pair is true.
FileDefaultTrue(dv, g, nm) ==
    /\ dv # None
    /\ \E i \in 1..Len(dv[1]) :
          /\ dv[1][i].group = g /\ dv[1][i].name = nm /\ dv[1][i].visible
          /\ \A j \in (i + 1)..Len(dv[1]) :
                 ~(dv[1][j].group = g /\ dv[1][j].name = nm)

\* C10: right after a load a signal is visible exactly when it is a member
\* of a group g and the file's default_visibility gives (g, its name) as
\* true; no entry for that pair, or no group, leaves it not visible.
DefaultVisibility ==
    lastOp = "load" =>
        \A nm \in DOMAIN signals :
            signals[nm].visible <=>
                \E g \in DOMAIN groups :
                    /\ nm \in Range(groups[g].signals)
                    /\ FileDefaultTrue(picked.default_visibility, g, nm)

\* A visible signal next to one whose name is listed as visible under a
\* group that is not its own.
DefaultVisibilityWitness ==
    /\ lastOp = "load"
    /\ picked.default_visibility =
           Some(<<VisibilityEntry("g1", "a", TRUE), VisibilityEntry("g2", "b", TRUE)>>)
    /\ DOMAIN groups = {"g1"}
    /\ groups["g1"].signals = <<"a", "b">>
    /\ signals["a"].visible
    /\ ~signals["b"].visible

-----------------------------------------------------------------------------
(* The application session: frames of MyApp::update, one click per frame.  *)

\* load_settings: a user_settings.json that holds the default script and a
\* second script for ".txt", so that ".log" has one candidate script, ".txt"
\* has two and ".bin" has none.
SessionSettings ==
    [conversion_scripts |->
        <<[name |-> "Default Conversion", extensions |-> {".log", ".txt"}],
          [name |-> "Text Conversion", extensions |-> {".txt"}]>>]

Init ==
    /\ FreshApp
    /\ user_settings = SessionSettings
    /\ picked = DataFile(<< >>, None)
    /\ lastOp = "init"

\* The rest of a frame in which no load happened: the layout block on the
\* signals as the clicks left them.
EndFrame(sigs) == LayoutBlock(sigs, groups)

\* show_error_dialog
ShowErrorDialog(msg) == error_dialog_message' = Some(msg)

\* The failure arms of File > Open: a path that does not end in ".json", a
\* read error, a text that is no DataFile.
OpenErrors ==
    {"Open only supports .json files.", "File read error",
     "Failed to parse JSON data as DataFile."}

\* Mutant: the visibility defaults are cleared before the file is parsed.
OpenFailClearsDefaults ==
    /\ \E msg \in OpenErrors : ShowErrorDialog(msg)
    /\ visibility_defaults' = << >>
    /\ EndFrame(signals)
    /\ lastOp' = "fail"
    /\ UNCHANGED <<logs, min_time, max_time, groups, conversion_result,
                   file_name, user_settings, pending_import_file,
                   pending_script_candidates, picked, pc>>

OpenFail ==
    /\ \E msg \in OpenErrors : ShowErrorDialog(msg)
    /\ EndFrame(signals)
    /\ lastOp' = "fail"
    /\ UNCHANGED <<logs, min_time, max_time, groups, conversion_result,
                   visibility_defaults, file_name, user_settings,
                   pending_import_file, pending_script_candidates, picked, pc>>

\* File > Import on a .json file that reads and parses.
ImportOk(f) ==
    /\ LoadDataFile(f, "data.json")
    /\ lastOp' = "load"
    /\ UNCHANGED <<conversion_result, error_dialog_message, user_settings,
                   pending_import_file, pending_script_candidates, pc>>

\* The scripts of the settings whose extensions hold the path's extension.
Candidates(path) ==
    LET Applies(script) == ExtWithDot(path) \in script.extensions
    IN SelectSeq(user_settings.conversion_scripts, Applies)

\* File > Import failing at once: a .json file that does not read or parse,
\* or a file for whose extension no script is configured.
ImportFail ==
    /\ \/ \E msg \in {"File read error", "Failed to parse JSON data as DataFile."} :
              ShowErrorDialog(msg)
       \/ \E path \in Paths :
              /\ ~IsJsonPath(path)
              /\ Candidates(path) = << >>
              /\ ShowErrorDialog("No conversion script for the extension")
    /\ EndFrame(signals)
    /\ lastOp' = "fail"
    /\ UNCHANGED <<logs, min_time, max_time, groups, conversion_result,
                   visibility_defaults, file_name, user_settings,
                   pending_import_file, pending_script_candidates, picked, pc>>

\* execute_conversion: the converter does not start ("spawn_error"), exits
\* with failure ("exit_failure") or exits successfully ("exit_success").
\* (command, stdout and stderr, which are only displayed, are left out.)
ConverterOutcomes == {"spawn_error", "exit_failure", "exit_success"}

execute_conversion(path, script, outcome) ==
    /\ conversion_result' =
           Some([ok |-> outcome = "exit_success",
                 json_file |-> IF outcome = "exit_success"
                               THEN Some(WithJsonExtension(path)) ELSE None])
    /\ IF outcome = "spawn_error"
       THEN ShowErrorDialog("Failed to execute the conversion script")
       ELSE UNCHANGED error_dialog_message

\* File > Import on a file with exactly one candidate script.
ImportConvert ==
    /\ \E path \in Paths : \E outcome \in ConverterOutcomes :
          /\ ~IsJsonPath(path)
          /\ Len(Candidates(path)) = 1
          /\ execute_conversion(path, Candidates(path)[1], outcome)
          /\ lastOp' = IF outcome = "exit_success" THEN "other" ELSE "fail"
    /\ EndFrame(signals)
    /\ UNCHANGED <<logs, min_time, max_time, groups, visibility_defaults,
                   file_name, user_settings, pending_import_file,
                   pending_script_candidates, picked, pc>>

\* File > Import on a file with several candidate scripts.
ImportPending ==
    /\ \E path \in Paths :
          /\ ~IsJsonPath(path)
          /\ Len(Candidates(path)) > 1
          /\ pending_import_file' = Some(path)
          /\ pending_script_candidates' = Some(Candidates(path))
    /\ EndFrame(signals)
    /\ lastOp' = "other"
    /\ UNCHANGED <<logs, min_time, max_time, groups, conversion_result,
                   error_dialog_message, visibility_defaults, file_name,
                   user_settings, picked, pc>>

\* Select Conversion Script: a script's button.
SelectScript ==
    /\ pending_import_file # None /\ pending_script_candidates # None
    /\ \E i \in 1..Len(pending_script_candidates[1]) :
       \E outcome \in ConverterOutcomes :
          /\ execute_conversion(pending_import_file[1],
                                pending_script_candidates[1][i], outcome)
          /\ lastOp' = IF outcome = "exit_success" THEN "other" ELSE "fail"
    /\ pending_import_file' = None
    /\ pending_script_candidates' = None
    /\ EndFrame(signals)
    /\ UNCHANGED <<logs, min_time, max_time, groups, visibility_defaults,
                   file_name, user_settings, picked, pc>>

\* Select Conversion Script: Cancel.
CancelPending ==
    /\ pending_import_file # None /\ pending_script_candidates # None
    /\ pending_import_file' = None
    /\ pending_script_candidates' = None
    /\ EndFrame(signals)
    /\ lastOp' = "other"
    /\ UNCHANGED <<logs, min_time, max_time, groups, conversion_result,
                   error_dialog_message, visibility_defaults, file_name,
                   user_settings, picked, pc>>

\* Mutant: the result is loaded and stays in the Conversion Result window.
AckLoadKeepsResult(f) ==
    /\ conversion_result # None
    /\ conversion_result[1].ok /\ conversion_result[1].json_file # None
    /\ LoadDataFile(f, conversion_result[1].json_file[1])
    /\ lastOp' = "load"
    /\ UNCHANGED <<conversion_result, error_dialog_message, user_settings,
                   pending_import_file, pending_script_candidates, pc>>

\* Conversion Result: OK on a successful result whose file reads and parses.
AckLoad(f) ==
    /\ conversion_result # None
    /\ conversion_result[1].ok /\ conversion_result[1].json_file # None
    /\ LoadDataFile(f, conversion_result[1].json_file[1])
    /\ conversion_result' = None
    /\ lastOp' = "load"
    /\ UNCHANGED <<error_dialog_message, user_settings, pending_import_file,
                   pending_script_candidates, pc>>

\* Conversion Result: OK on a successful result whose file does not read or
\* does not parse.
AckFail ==
    /\ conversion_result # None
    /\ conversion_result[1].ok /\ conversion_result[1].json_file # None
    /\ \E msg \in {"File read error", "Failed to parse JSON data as DataFile."} :
          ShowErrorDialog(msg)
    /\ conversion_result' = None
    /\ EndFrame(signals)
    /\ lastOp' = "fail"
    /\ UNCHANGED <<logs, min_time, max_time, groups, visibility_defaults,
                   file_name, user_settings, pending_import_file,
                   pending_script_candidates, picked, pc>>

\* Conversion Result: OK on a failed result.
AckFailed ==
    /\ conversion_result # None
    /\ ~(conversion_result[1].ok /\ conversion_result[1].json_file # None)
    /\ conversion_result' = None
    /\ EndFrame(signals)
    /\ lastOp' = "other"
    /\ UNCHANGED <<logs, min_time, max_time, groups, error_dialog_message,
                   visibility_defaults, file_name, user_settings,
                   pending_import_file, pending_script_candidates, picked, pc>>

\* Error: OK.
DismissError ==
    /\ error_dialog_message # None
    /\ error_dialog_message' = None
    /\ EndFrame(signals)
    /\ lastOp' = "other"
    /\ UNCHANGED <<logs, min_time, max_time, groups, conversion_result,
                   visibility_defaults, file_name, user_settings,
                   pending_import_file, pending_script_candidates, picked, pc>>

ToggleFrame(sigs, op) ==
    /\ EndFrame(sigs)
    /\ lastOp' = op
    /\ UNCHANGED <<logs, min_time, max_time, groups, conversion_result,
                   error_dialog_message, visibility_defaults, file_name,
                   user_settings, pending_import_file,
                   pending_script_candidates, picked, pc>>

\* The file-level "Toggle All" (lines 695-701).
ToggleFileAll ==
    /\ file_name # None
    /\ LET file_toggle == ~(\A nm \in DOMAIN signals : signals[nm].visible)
       IN ToggleFrame([nm \in DOMAIN signals |->
                          [signals[nm] EXCEPT !.visible = file_toggle]],
                      "toggle")

\* A group's "Toggle All" (lines 707-722).
ToggleGroupAll ==
    /\ file_name # None
    /\ \E g \in DOMAIN groups :
          LET members == Range(groups[g].signals)
              group_toggle == ~(\A nm \in members : signals[nm].visible)
          IN ToggleFrame([nm \in DOMAIN signals |->
                             IF nm \in members
                             THEN [signals[nm] EXCEPT !.visible = group_toggle]
                             ELSE signals[nm]],
                         "toggle")

\* A signal's checkbox (lines 724-734): only members of a group have one.
ToggleSignal ==
    /\ file_name # None
    /\ \E g \in DOMAIN groups : \E nm \in Range(groups[g].signals) :
          /\ nm \in DOMAIN signals
          /\ ToggleFrame([signals EXCEPT ![nm].visible = ~signals[nm].visible],
                         "toggle")

Next ==
    \/ \E f \in SessionFiles : OpenOk(f)
    \/ OpenFail
    \/ \E f \in SessionFiles : ImportOk(f)
    \/ ImportFail
    \/ ImportConvert
    \/ ImportPending
    \/ SelectScript
    \/ CancelPending
    \/ \E f \in SessionFiles : AckLoad(f)
    \/ AckFail
    \/ AckFailed
    \/ DismissError
    \/ ToggleFileAll
    \/ ToggleGroupAll
    \/ ToggleSignal

Spec == Init /\ [][Next]_vars

VisibleSignals == {nm \in DOMAIN signals : signals[nm].visible}

\* C5 as stated: at the end of every frame the y_offset values of the N
\* signals whose visible flag is true are pairwise distinct and lie in
\* {1, 3, ..., 2N-1}.
LayoutUniqueness ==
    LET N == Cardinality(VisibleSignals)
    IN /\ \A x, y \in VisibleSignals :
              signals[x].y_offset = signals[y].y_offset => x = y
       /\ \A x \in VisibleSignals :
              signals[x].y_offset \in {2 * i - 1 : i \in 1..N}

\* The steps of the failure paths: Open and Import failing at once, a
\* converter that does not start or exits with failure, and a Conversion
\* Result acknowledged whose file does not read or parse.
ConverterFailed ==
    /\ conversion_result' # None
    /\ ~conversion_result'[1].ok
    /\ ImportConvert \/ SelectScript

FailureStep == OpenFail \/ ImportFail \/ ConverterFailed \/ AckFail

\* C6: a step of a failure path leaves logs, signals, groups,
\* visibility_defaults, file_name, min_time and max_time as they were.
FailureKeepsDataset == [][FailureStep => dataset' = dataset]_vars

\* A failure of each kind at the end of a session that had loaded a file
\* with visible signals: the error shown, the dataset still there.
FailureWitness ==
    /\ lastOp = "fail"
    /\ error_dialog_message = Some("Failed to execute the conversion script")
    /\ conversion_result # None /\ ~conversion_result[1].ok
    /\ Len(logs) = 3
    /\ file_name = Some("data")
    /\ Cardinality(VisibleSignals) = 2

Ungrouped(nm) == \A g \in DOMAIN groups : nm \notin Range(groups[g].signals)

\* C8 as stated: no signal without a group is a value of offset_to_name,
\* and none is drawn as a waveform.
UngroupedNotLaidOut ==
    \A nm \in DOMAIN signals :
        Ungrouped(nm) =>
            /\ nm \notin {offset_to_name[o] : o \in DOMAIN offset_to_name}
            /\ nm \notin DrawnSignals(signals, groups)

-----------------------------------------------------------------------------
(* A load taken step by step: the Ok(data_file) arm of Open up to the      *)
(* loop of recalc over self.logs (line 256), one turn of that loop per     *)
(* step, the merge loop (line 259), then the rest of recalc and of the     *)
(* frame.                                                                  *)

\* Files rich in ONOFF and PULSE events: every event list up to MaxEvents
\* over the times 0..MaxEvTime, both signals in group g1 and visible by
\* default, so that the plot draws them.
ClassEvents ==
    {LogEntry(<<t>>, "ONOFF", nm, Some("g1"), StrValue(v)) :
        t \in 0..MaxEvTime, nm \in {"X", "Y"}, v \in {"ON", "OFF"}} \cup
    {LogEntry(<<t>>, "PULSE", "X", Some("g1"), NumValue(5)) : t \in 0..MaxEvTime}

ClassDefaults ==
    Some(<<VisibilityEntry("g1", "X", TRUE), VisibilityEntry("g1", "Y", TRUE)>>)

ClassFiles == {DataFile(ls, ClassDefaults) : ls \in Seqs(ClassEvents, MaxEvents)}

\* Two disjoint ON/OFF pairs of X (times in ms), in every order of the file.
DisjointPairs ==
    <<LogEntry(<<0>>, "ONOFF", "X", Some("g1"), StrValue("ON")),
      LogEntry(<<1000>>, "ONOFF", "X", Some("g1"), StrValue("OFF")),
      LogEntry(<<5000>>, "ONOFF", "X", Some("g1"), StrValue("ON")),
      LogEntry(<<6000>>, "ONOFF", "X", Some("g1"), StrValue("OFF"))>>

PairFiles ==
    {DataFile(Permuted(DisjointPairs, p), ClassDefaults) :
        p \in Perms(Len(DisjointPairs))} \cup
    {DataFile(InsertAt(DisjointPairs, k, e), ClassDefaults) :
        k \in 0..Len(DisjointPairs),
        e \in {LogEntry(<<3000>>, "ONOFF", "Y", Some("g1"), StrValue("ON")),
               LogEntry(<<500>>, "ONOFF", "Y", Some("g1"), StrValue("OFF"))}}

\* Events of every kind, with payloads of every type, at times far apart
\* and close together, and one with a timestamp that does not parse; the
\* files hold up to two of them.
MixedEvents ==
    {LogEntry(<<2000>>, "PULSE", "X", Some("g1"), v) :
        v \in {NumValue(1), NumValue(5), NumValue(250), StrValue("5"), NullValue}} \cup
    {LogEntry(<<1000>>, "ONOFF", "Y", Some("g1"), StrValue("OFF")),
     LogEntry(<<0>>, "ONOFF", "X", Some("g1"), StrValue("ON")),
     LogEntry(<<3000>>, "ONOFF", "X", Some("g1"), StrValue("ON")),
     LogEntry(<<5000>>, "ONOFF", "X", Some("g1"), StrValue("OFF")),
     LogEntry(<<1900>>, "ARROW", "X", Some("g1"), NullValue),
     LogEntry(<<2100>>, "NOTE", "Y", Some("g1"), StrValue("ON")),
     LogEntry(<< >>, "ONOFF", "Y", Some("g1"), StrValue("ON"))}

MixedFiles ==
    {DataFile(ls, ClassDefaults) : ls \in Seqs(MixedEvents, 2)} \cup
    {DataFile(<<a, b, c>>, ClassDefaults) :
        a \in MixedEvents, b \in MixedEvents,
        c \in {LogEntry(<<5000>>, "ONOFF", "X", Some("g1"), StrValue("OFF"))}}

RecalcFiles == ClassFiles \cup PairFiles \cup MixedFiles

InitRecalc ==
    /\ FreshApp
    /\ user_settings = DefaultSettings
    /\ picked \in RecalcFiles
    /\ lastOp = "init"

\* The fields the later steps of the load frame keep.
loadFrame ==
    <<logs, min_time, max_time, conversion_result, error_dialog_message,
      visibility_defaults, file_name, user_settings, pending_import_file,
      pending_script_candidates, picked>>

\* self.signals after lines 198-216 and 244-254: a new SignalData for every
\* name of the logs, with its default visibility.
FreshSignals(ls, vd) ==
    LET s2g == ResolveGroups(ls)
    IN [n \in {ls[i].name : i \in 1..Len(ls)} |->
           [NewSignal(n) EXCEPT !.visible = DefaultVisible(s2g, vd, n)]]

\* Open on the picked file, which reads and parses: logs normalized and
\* sorted, visibility_defaults, file_name, and recalc up to line 254.
BeginLoad ==
    /\ pc = Idle /\ lastOp = "init"
    /\ \E sorted \in {SortLogs(NormalizeLogs(picked.logs))} :
       \E vd \in {LoadDefaults(picked.default_visibility)} :
          /\ logs' = sorted
          /\ visibility_defaults' = vd
          /\ file_name' = Some(FileStem("data.json"))
          /\ min_time' = IF sorted = << >> THEN 0 ELSE sorted[1].timestamp_num
          /\ max_time' = IF sorted = << >> THEN DefaultMaxTime
                         ELSE Last(sorted).timestamp_num
          /\ signals' = FreshSignals(sorted, vd)
          /\ groups' = BuildGroups(sorted)
    /\ pc' = [at |-> "classify", next |-> 1]
    /\ lastOp' = "begin"
    /\ UNCHANGED <<offset_to_name, conversion_result, error_dialog_message,
                   user_settings, pending_import_file,
                   pending_script_candidates, picked, plot_lines>>

\* One turn of the loop of lines 256-258.
ClassifyStep ==
    /\ pc.at = "classify" /\ pc.next <= Len(logs)
    /\ signals' = update_signal_data(signals, logs[pc.next])
    /\ pc' = [pc EXCEPT !.next = @ + 1]
    /\ lastOp' = "classify"
    /\ UNCHANGED <<loadFrame, groups, offset_to_name, plot_lines>>

\* The loop of lines 259-261, once the logs are classified.
MergeStep ==
    /\ pc.at = "classify" /\ pc.next > Len(logs)
    /\ signals' = MergeAll(signals)
    /\ pc' = [at |-> "merged", next |-> 0]
    /\ lastOp' = "merge"
    /\ UNCHANGED <<loadFrame, groups, offset_to_name, plot_lines>>

\* Lines 263-293 on the merged signals: y_offset and color of every signal
\* of a group.
PlaceGrouped(sigs, grps) ==
    LET ordered == OrderedSignalNames(grps)
        total == Len(ordered)
    IN [n \in DOMAIN sigs |->
           IF n \in Range(ordered)
           THEN LET i == IndexOf(ordered, n) - 1 IN
                [sigs[n] EXCEPT
                    !.y_offset = SlotOffset(total, i),
                    !.color = color_palette[(i % Len(color_palette)) + 1]]
           ELSE sigs[n]]

\* The rest of recalc and of the frame.
FinishLoad ==
    /\ pc.at = "merged"
    /\ FrameTail(PlaceGrouped(signals, groups), groups, min_time, max_time)
    /\ pc' = Idle
    /\ lastOp' = "load"
    /\ UNCHANGED <<loadFrame, groups>>

NextRecalc == BeginLoad \/ ClassifyStep \/ MergeStep \/ FinishLoad

SpecRecalc == InitRecalc /\ [][NextRecalc]_vars

\* The steps end in the state File > Open reaches in one frame.
StepsAgreeWithOpen ==
    lastOp = "load" =>
        \E r \in {Rebuilt(picked)} :
           /\ logs = r.logs /\ groups = r.groups
           /\ min_time = r.min_time /\ max_time = r.max_time
           /\ visibility_defaults = r.visibility_defaults
           /\ signals = LayoutOffsets(r.signals, r.groups)

\* The events are all ONOFF, begin with ON, end with OFF, alternate, and
\* their times increase strictly.
Alternating(evs) ==
    /\ Len(evs) > 0 /\ Len(evs) % 2 = 0
    /\ \A i \in 1..Len(evs) :
          /\ evs[i].kind = "ONOFF"
          /\ evs[i].value = StrValue(IF i % 2 = 1 THEN "ON" ELSE "OFF")
    /\ \A i \in 1..(Len(evs) - 1) :
          evs[i].timestamp_num < evs[i + 1].timestamp_num

\* C11: a signal whose events, in the time order of self.logs, alternate ON,
\* OFF, ..., OFF at strictly increasing times ends the rebuild with exactly
\* the (ON time, OFF time) pairs, in ascending order.
AlternatingYieldsPairs ==
    lastOp = "load" =>
        \A nm \in DOMAIN signals :
            LET evs == EventsOf(logs, nm)
            IN Alternating(evs) =>
                   signals[nm].on_intervals =
                       [k \in 1..(Len(evs) \div 2) |->
                           Interval(evs[2 * k - 1].timestamp_num,
                                    evs[2 * k].timestamp_num)]

\* The two disjoint pairs, given with the last OFF first in the file.
AlternatingWitness ==
    /\ lastOp = "load"
    /\ Len(picked.logs) = 4
    /\ picked.logs[1] = DisjointPairs[4]
    /\ Alternating(EventsOf(logs, "X"))
    /\ signals["X"].on_intervals = <<Interval(0, 1000), Interval(5000, 6000)>>

\* A step of the loop of lines 256-258 is under way on self.logs[pc.next].
Classifying == pc.at = "classify" /\ pc.next <= Len(logs) /\ pc'.next = pc.next + 1

IsOnOff(log, v) == log.kind = "ONOFF" /\ log.value = StrValue(v)

\* C12: an ONOFF OFF processed while its signal has no pending start changes
\* nothing (no interval, is_on still None, the other signals as they were),
\* and a signal whose only event is an OFF ends the rebuild with no interval.
UnmatchedOffDropped ==
    [][/\ (/\ Classifying
           /\ IsOnOff(logs[pc.next], "OFF")
           /\ signals[logs[pc.next].name].is_on = None)
          => signals' = signals
       /\ lastOp' = "load"
          => \A nm \in DOMAIN signals' :
                 (/\ Len(EventsOf(logs', nm)) = 1
                  /\ IsOnOff(EventsOf(logs', nm)[1], "OFF"))
                 => signals'[nm].on_intervals = << >>]_vars

\* An OFF of Y has just been dropped while X holds a pending start.
UnmatchedOffWitness ==
    /\ lastOp = "classify"
    /\ pc.next = 3
    /\ IsOnOff(logs[1], "ON") /\ logs[1].name = "X"
    /\ IsOnOff(logs[2], "OFF") /\ logs[2].name = "Y"
    /\ signals["Y"].is_on = None /\ signals["Y"].on_intervals = << >>
    /\ signals["X"].is_on = Some(logs[1].timestamp_num)

\* C13: a PULSE with a numeric payload at time t appends exactly the
\* interval (t, t + PulseWidth) to its signal and changes nothing else,
\* whatever the payload; a signal whose only event is a PULSE with a numeric
\* payload at t ends the rebuild with [(t, t + PulseWidth)].
PulseAppendsFixedWidth ==
    [][/\ (/\ Classifying
           /\ logs[pc.next].kind = "PULSE"
           /\ logs[pc.next].value.t = "num")
          => LET nm == logs[pc.next].name
                 t == logs[pc.next].timestamp_num
             IN signals' =
                    [signals EXCEPT
                        ![nm].on_intervals = Append(@, Interval(t, t + PulseWidth))]
       /\ lastOp' = "load"
          => \A nm \in DOMAIN signals' :
                 LET evs == EventsOf(logs', nm)
                 IN (/\ Len(evs) = 1
                     /\ evs[1].kind = "PULSE" /\ evs[1].value.t = "num")
                    => signals'[nm].on_intervals =
                           <<Interval(evs[1].timestamp_num,
                                      evs[1].timestamp_num + PulseWidth)>>]_vars

\* The rebuild of a file whose only event of X is a PULSE at 2 s with the
\* payload 250.
PulseWitness ==
    /\ lastOp = "load"
    /\ EventsOf(picked.logs, "X") =
           <<LogEntry(<<2000>>, "PULSE", "X", Some("g1"), NumValue(250))>>
    /\ signals["X"].on_intervals = <<Interval(2000, 2001)>>

\* C15: an ON processed for a signal that has a pending start replaces the
\* start by its own time and emits nothing; an OFF processed for a signal
\* with the pending start b emits exactly (b, its time) and clears the
\* pending start; so a signal whose events are ON@a, ON@b, OFF@c ends the
\* loop with the one interval (b, c), none starting at a.
LastOnWins ==
    [][/\ (/\ Classifying
           /\ IsOnOff(logs[pc.next], "ON")
           /\ signals[logs[pc.next].name].is_on # None)
          => signals' =
                 [signals EXCEPT
                     ![logs[pc.next].name].is_on = Some(logs[pc.next].timestamp_num)]
       /\ (/\ Classifying
           /\ IsOnOff(logs[pc.next], "OFF")
           /\ signals[logs[pc.next].name].is_on # None)
          => LET nm == logs[pc.next].name
             IN signals' =
                    [signals EXCEPT
                        ![nm].on_intervals =
                            Append(@, Interval(signals[nm].is_on[1],
                                               logs[pc.next].timestamp_num)),
                        ![nm].is_on = None]
       /\ lastOp' = "merge"
          => \A nm \in DOMAIN signals :
                 LET evs == EventsOf(logs, nm)
                 IN (/\ Len(evs) = 3
                     /\ IsOnOff(evs[1], "ON") /\ IsOnOff(evs[2], "ON")
                     /\ IsOnOff(evs[3], "OFF"))
                    => /\ signals[nm].on_intervals =
                              <<Interval(evs[2].timestamp_num, evs[3].timestamp_num)>>
                       /\ signals[nm].is_on = None]_vars

\* The OFF at 5 s has just closed the ON at 3 s that replaced the ON at 0 s.
LastOnWitness ==
    /\ lastOp = "classify"
    /\ pc.next = 4
    /\ IsOnOff(logs[1], "ON") /\ logs[1].name = "X" /\ logs[1].timestamp_num = 0
    /\ IsOnOff(logs[2], "ON") /\ logs[2].name = "X" /\ logs[2].timestamp_num = 3000
    /\ IsOnOff(logs[3], "OFF") /\ logs[3].name = "X" /\ logs[3].timestamp_num = 5000
    /\ signals["X"].on_intervals = <<Interval(3000, 5000)>>
    /\ signals["X"].is_on = None

\* C14: a load of a file with no events, whatever came before it, leaves
\* min_time = 0, max_time = 10 s and no signal, no group and no entry of
\* offset_to_name.
EmptyLoadResets ==
    (lastOp = "load" /\ picked.logs = << >>) =>
        /\ min_time = 0
        /\ max_time = 10000
        /\ signals = << >>
        /\ groups = << >>
        /\ offset_to_name = << >>

\* An empty file produced by a converter and loaded from the Conversion
\* Result window while the error of an earlier failure is still shown.
EmptyLoadWitness ==
    /\ lastOp = "load"
    /\ picked.logs = << >>
    /\ picked.default_visibility # None
    /\ file_name = Some("trace")
    /\ error_dialog_message # None
    /\ logs = << >> /\ signals = << >> /\ plot_lines = << >>

\* The visible signals in the order of the walk over the groups (ascending
\* group name, then each group's member list).
LayoutSequence == VisibleInOrder(signals, groups)

\* C16: at the end of every frame the i-th (0-indexed) of the N signals of
\* the layout sequence has y_offset = (N - i) * 2 - 1, an earlier signal of
\* the sequence has a strictly larger offset than a later one, and
\* offset_to_name maps each of these offsets to its signal's name.
LayoutOrder ==
    LET seq == LayoutSequence
        N == Len(seq)
    IN /\ \A k \in 1..N :
              /\ signals[seq[k]].y_offset = (N - (k - 1)) * 2 - 1
              /\ signals[seq[k]].y_offset \in DOMAIN offset_to_name
              /\ offset_to_name[signals[seq[k]].y_offset] = seq[k]
       /\ \A j, k \in 1..N :
              j < k => signals[seq[j]].y_offset > signals[seq[k]].y_offset

\* After a toggle: two visible signals of two groups, b of g1 above a of g2,
\* next to a visible signal without group.
LayoutOrderWitness ==
    /\ lastOp = "toggle"
    /\ LayoutSequence = <<"b", "a">>
    /\ signals["b"].y_offset = 3 /\ signals["a"].y_offset = 1
    /\ "Y" \in DOMAIN signals /\ signals["Y"].visible
    /\ offset_to_name[3] = "b" /\ offset_to_name[1] = "a"

\* The claim's description of the polyline w of the intervals ivs between
\* min_t and max_t on the baseline o: where each interval's points stand
\* is counted from the intervals before it (three points each, and one more
\* for each that begins after the cursor, the end of the interval before it
\* or min_t).
WaveAsDescribed(w, ivs, min_t, max_t, o) ==
    LET n == Len(ivs)
        Cursor(k) == IF k = 1 THEN min_t ELSE ivs[k - 1].end
        Gap(k) == IF ivs[k].start > Cursor(k) THEN 1 ELSE 0
        Before(k) == 1 + 3 * (k - 1) +
                     Cardinality({j \in 1..(k - 1) : ivs[j].start > Cursor(j)})
        Closing == IF Cursor(n + 1) < max_t THEN 1 ELSE 0
    IN /\ Len(w) = Before(n + 1) + Closing
       /\ w[1] = <<min_t, o>>
       /\ \A k \in 1..n :
              LET at == Before(k) + Gap(k)
              IN /\ Gap(k) = 1 => w[at] = <<ivs[k].start, o>>
                 /\ w[at + 1] = <<ivs[k].start, o + 1>>
                 /\ w[at + 2] = <<ivs[k].end, o + 1>>
                 /\ w[at + 3] = <<ivs[k].end, o>>
       /\ Closing = 1 => w[Len(w)] = <<max_t, o>>
       /\ \A j \in 1..(Len(w) - 1) : w[j][1] <= w[j + 1][1]
       /\ w[Len(w)][2] = o

\* C17: every line the plot draws after a rebuild is the polyline the claim
\* describes for the signal's merged intervals, min_time, max_time and the
\* signal's y_offset as baseline.
WaveShape ==
    lastOp = "load" =>
        \A i \in 1..Len(plot_lines) :
            LET nm == plot_lines[i].name
            IN WaveAsDescribed(plot_lines[i].points, signals[nm].on_intervals,
                               min_time, max_time, signals[nm].y_offset)

\* Two lines after a rebuild: X with an interval that begins at min_time
\* (no point before the rising edge) and Y with an interval that begins
\* later; both end before max_time and get the closing point.
WaveShapeWitness ==
    /\ lastOp = "load"
    /\ min_time = 1900 /\ max_time = 5000
    /\ Len(plot_lines) = 2
    /\ plot_lines[1] =
           [name |-> "X",
            points |-> <<<<1900, 3>>, <<1900, 4>>, <<2100, 4>>, <<2100, 3>>,
                         <<5000, 3>>>>]
    /\ plot_lines[2] =
           [name |-> "Y",
            points |-> <<<<1900, 1>>, <<2100, 1>>, <<2100, 2>>, <<2300, 2>>,
                         <<2300, 1>>, <<5000, 1>>>>]

\* What File > Open of the file f leaves in an application that has just
\* been started: the Ok(data_file) arm on the state of MyApp::new().
FreshLoad(f) == Rebuilt(f)

\* C18: after a load of the file B, whatever came before it, logs, the
\* signals (names, intervals, visible flags), groups, visibility_defaults,
\* min_time and max_time are those of a load of B into the fresh application.
FullRebuild ==
    lastOp = "load" =>
        \E fresh \in {FreshLoad(picked)} :
           /\ logs = fresh.logs
           /\ groups = fresh.groups
           /\ visibility_defaults = fresh.visibility_defaults
           /\ min_time = fresh.min_time
           /\ max_time = fresh.max_time
           /\ DOMAIN signals = DOMAIN fresh.signals
           /\ \A nm \in DOMAIN signals :
                  /\ signals[nm].name = fresh.signals[nm].name
                  /\ signals[nm].on_intervals = fresh.signals[nm].on_intervals
                  /\ signals[nm].visible = fresh.signals[nm].visible

\* A load from the Conversion Result window, an earlier error still shown,
\* of a file with three signals of which b alone is visible by default.
FullRebuildWitness ==
    /\ lastOp = "load"
    /\ file_name = Some("trace")
    /\ error_dialog_message # None
    /\ Len(logs) = 3
    /\ picked.default_visibility # None
    /\ VisibleSignals = {"b", "a"}
    /\ visibility_defaults # << >>

\* C19: in every state of a load, before the merge and after it, every
\* interval of every signal has start <= end.
IntervalsWellFormed ==
    \A nm \in DOMAIN signals :
        \A i \in 1..Len(signals[nm].on_intervals) :
            signals[nm].on_intervals[i].start <= signals[nm].on_intervals[i].end

\* The raw list of X, before the merge, of a file that gives the OFF before
\* the ON: the sort has put them in time order and the pair is (0, 1).
IntervalsWitness ==
    /\ lastOp = "classify"
    /\ pc.next > Len(logs)
    /\ Len(picked.logs) = 3
    /\ IsOnOff(picked.logs[1], "OFF") /\ picked.logs[1].name = "X"
    /\ picked.logs[1].timestamp = <<1>>
    /\ IsOnOff(picked.logs[2], "ON") /\ picked.logs[2].name = "X"
    /\ picked.logs[2].timestamp = <<0>>
    /\ picked.logs[3].kind = "PULSE" /\ picked.logs[3].timestamp = <<1>>
    /\ signals["X"].on_intervals = <<Interval(0, 1), Interval(1, 2)>>

\* The steps that call execute_conversion, and the OK button of the
\* Conversion Result window in its three outcomes.
ConversionRun == ImportConvert \/ SelectScript

ResultLoaded == \E f \in SessionFiles : AckLoad(f)

ResultAcknowledged == ResultLoaded \/ AckFail \/ AckFailed

\* C20: every run of execute_conversion leaves one ConversionResult, whose
\* json_file is present exactly when ok is true; the OK button clears
\* conversion_result; the converter's file is loaded only by the OK button on
\* a result that is there and ok, which that step clears, and an OK that
\* does not load leaves the dataset as it was.
ConversionDeliveredOnce ==
    [][/\ ConversionRun => conversion_result' # None
       /\ conversion_result' # None
          => (conversion_result'[1].json_file # None <=> conversion_result'[1].ok)
       /\ ResultAcknowledged => conversion_result # None /\ conversion_result' = None
       /\ ResultLoaded => conversion_result[1].ok
       /\ (AckFail \/ AckFailed) => dataset' = dataset]_vars

\* The converter's file has been loaded and the result is gone.
ConversionWitness ==
    /\ lastOp = "load"
    /\ file_name = Some("trace")
    /\ conversion_result = None
    /\ Len(logs) = 2
    /\ pending_import_file = None

\* A frame in which a visibility checkbox changes: a signal's own, a
\* group's "Toggle All" or the file's "Toggle All".
VisibilityChange == ToggleSignal \/ ToggleGroupAll \/ ToggleFileAll

\* C21: a visibility change with the layout recomputation of its frame
\* leaves logs, every signal's on_intervals and color (and the set of
\* signals), the groups with their member lists, visibility_defaults,
\* min_time and max_time as they were.
ToggleFrameEffect ==
    [][VisibilityChange =>
          /\ logs' = logs
          /\ groups' = groups
          /\ visibility_defaults' = visibility_defaults
          /\ min_time' = min_time
          /\ max_time' = max_time
          /\ DOMAIN signals' = DOMAIN signals
          /\ \A nm \in DOMAIN signals :
                 /\ signals'[nm].on_intervals = signals[nm].on_intervals
                 /\ signals'[nm].color = signals[nm].color]_vars

\* After a toggle that hid a: b, loaded at offset 3, now stands alone at
\* offset 1, and both keep the colors and intervals of the load.
ToggleFrameWitness ==
    /\ lastOp = "toggle"
    /\ picked.default_visibility # None
    /\ VisibleSignals = {"b"}
    /\ signals["b"].y_offset = 1 /\ signals["b"].color = "RED"
    /\ "a" \in DOMAIN signals
    /\ signals["a"].color = "GREEN"
    /\ Len(signals["a"].on_intervals) = 1
    /\ offset_to_name = (1 :> "b")

====
